---- MODULE Spec2Model ----
(***************************************************************************)
(* cloudify_terminal.tasks: the `run` operation and its retry helper       *)
(* `_rerun`, as a state machine.  One run resolves the credentials, tries  *)
(* the candidate hosts, compiles and executes each call line by line       *)
(* through `_rerun`, stores results, and closes the session.               *)
(*                                                                         *)
(* Representation.  A Python dict is a function whose DOMAIN is the set of *)
(* keys present.  A command text is the sequence of its lines (what        *)
(* split("\n") yields), so the empty string is <<"">>.  A transport output *)
(* is a sequence of characters, so that strip() is something computed.     *)
(***************************************************************************)
EXTENDS Integers, Sequences, FiniteSets, TLC

\* ------------------------------------------------------------------ bounds
MaxCalls == 2
MaxExit == 3

\* ------------------------------------------------------- program constants
RerunCount == 10
DefaultRetryCount == 10
DefaultRetrySleep == 15

None == "None"
EmptyText == <<"">>
EmptyDict == [k \in {} |-> None]

\* dict.get(key, default)
Get(d, k, default) == IF k \in DOMAIN d THEN d[k] ELSE default

\* an update that keeps the values the dict already has
DictUpdateKeepsOld(d, other) ==
    [k \in DOMAIN d \cup DOMAIN other |-> IF k \in DOMAIN d THEN d[k] ELSE other[k]]

\* dict.update(other), as the value the updated dict then has
DictUpdate(d, other) ==
    [k \in DOMAIN d \cup DOMAIN other |-> IF k \in DOMAIN other THEN other[k] ELSE d[k]]

\* ------------------------------------------------------------- strings
IsSpace(c) == c \in {" ", "\n"}

RECURSIVE LStrip(_)
LStrip(s) == IF s # <<>> /\ IsSpace(Head(s)) THEN LStrip(Tail(s)) ELSE s

RECURSIVE RStrip(_)
RStrip(s) ==
    IF s # <<>> /\ IsSpace(s[Len(s)]) THEN RStrip(SubSeq(s, 1, Len(s) - 1)) ELSE s

\* str.strip()
Strip(s) == RStrip(LStrip(s))

\* `not op_line.strip()`: the line holds nothing but whitespace
IsBlankLine(l) == l \in {"", " "}

\* `not operation` for a text held as its lines
IsEmptyText(t) == t = EmptyText

\* ------------------------------------------------------------ the inputs
\* An address value is a str or a list; kind tells which (isinstance).
IpStr(a) == [kind |-> "str", addrs |-> IF a = "" THEN <<>> ELSE <<a>>]
IpList(l) == [kind |-> "list", addrs |-> l]

\* ctx.node.properties: the node-level mappings the run may start from
NodeProperties ==
    { EmptyDict,
      "terminal_auth" :> ( "user" :> "admin" @@ "ip" :> IpList(<<"h1", "h2">>)
                           @@ "promt_check" :> "#" @@ "errors" :> <<"err">> ) }

\* kwargs['terminal_auth'] when given
InvocationAuths ==
    { "ip" :> IpList(<<>>) @@ "exit_command" :> "",
      "ip" :> IpStr("h3") @@ "promt_check" :> "$" }

\* ctx_instance.host_ip
HostIps == { "hc", None }

\* ctx.get_resource(name): the template text, or None when there is none
Resource(name) ==
    CASE name = "tpl_cmd" -> <<"{{ cmd }}">>
      [] name = "tpl_two" -> <<"show t", "{{ cmd }}", "">>
      [] OTHER -> None

\* the calls a run may be given
CallSet ==
    { "action" :> <<"show a">> @@ "template" :> "tpl_two"
          @@ "params" :> ("cmd" :> "show p") @@ "save_to" :> "k1",
      "action" :> <<"show a", " ", "show b">> @@ "retry_count" :> 2
          @@ "retry_sleep" :> 5 @@ "promt_check" :> ">" @@ "errors" :> <<"bad">>
          @@ "save_to" :> "k1",
      "template" :> "tpl_cmd" @@ "template_text" :> <<"show x">> @@ "save_to" :> "k2",
      "template" :> "missing" @@ "template_text" :> <<"show x">>,
      "save_to" :> "k1" @@ "errors" :> <<"bad">>,
      "template_text" :> <<"{{ cmd }}">> @@ "params" :> ("cmd" :> "show p")
          @@ "retry_count" :> 11 @@ "retry_sleep" :> 5 }

RECURSIVE SeqsUpTo(_, _)
SeqsUpTo(S, n) ==
    IF n = 0 THEN { <<>> }
    ELSE LET shorter == SeqsUpTo(S, n - 1)
         IN  shorter \cup { Append(s, x) : s \in shorter, x \in S }

CallLists == SeqsUpTo(CallSet, MaxCalls)

\* what connection.run may return
Outputs == { <<"o", "k">>, <<" ", "o", " ">> }

\* ------------------------------------------------------ template rendering
\* Jinja drops one trailing newline of the template source.
DropTrailingNewline(t) ==
    IF Len(t) > 1 /\ t[Len(t)] = "" THEN SubSeq(t, 1, Len(t) - 1) ELSE t

\* Template(template).render(template_params): a {{ cmd }} line becomes the
\* parameter's value, or nothing when the parameter is undefined.
Render(template, params) ==
    LET src == DropTrailingNewline(template)
    IN  [i \in DOMAIN src |->
            IF src[i] = "{{ cmd }}" THEN Get(params, "cmd", "") ELSE src[i]]

\* `if not template_params: template_params = {}`
TemplateParams(call) == Get(call, "params", EmptyDict)

\* The named-template step: [operation, skip, lookup]
TemplateStep(call, operation) ==
    IF IsEmptyText(operation) /\ "template" \in DOMAIN call
    THEN LET template == Resource(call["template"])
         IN  IF template = None \/ IsEmptyText(template)
             THEN [operation |-> operation, skip |-> TRUE, lookup |-> TRUE]
             ELSE [operation |-> Render(template, TemplateParams(call)),
                   skip |-> FALSE, lookup |-> TRUE]
    ELSE [operation |-> operation, skip |-> FALSE, lookup |-> FALSE]

\* The template_text step: [operation, skip, inline]
TemplateTextStep(call, operation) ==
    IF IsEmptyText(operation) /\ "template_text" \in DOMAIN call
    THEN LET template == call["template_text"]
         IN  IF IsEmptyText(template)
             THEN [operation |-> operation, skip |-> TRUE, inline |-> FALSE]
             ELSE [operation |-> Render(template, TemplateParams(call)),
                   skip |-> FALSE, inline |-> TRUE]
    ELSE [operation |-> operation, skip |-> FALSE, inline |-> FALSE]

\* lines 118-147 without the `if not operation: continue` of lines 149-150
CompileCallNoEmptyCheck(call) ==
    LET action == Get(call, "action", EmptyText)
        named  == TemplateStep(call, action)
    IN  IF named.skip
        THEN [operation |-> named.operation, skip |-> TRUE,
              lookup |-> named.lookup, inline |-> FALSE]
        ELSE LET text == TemplateTextStep(call, named.operation)
             IN  [operation |-> text.operation, skip |-> text.skip,
                  lookup |-> named.lookup, inline |-> text.inline]

\* Lines 118-150 for one call: the text to execute, whether the call is
\* skipped, whether a template was looked up and whether the inline text
\* was rendered.
CompileCall(call) ==
    LET action == Get(call, "action", EmptyText)
        named  == TemplateStep(call, action)
    IN  IF named.skip
        THEN [operation |-> named.operation, skip |-> TRUE,
              lookup |-> named.lookup, inline |-> FALSE]
        ELSE LET text == TemplateTextStep(call, named.operation)
             IN  [operation |-> text.operation,
                  skip |-> text.skip \/ IsEmptyText(text.operation),
                  lookup |-> named.lookup, inline |-> text.inline]

\* the line loop without the `continue` of lines 160-161
RECURSIVE NextLineKeepsBlank(_, _)
NextLineKeepsBlank(lines, from) == IF from >= Len(lines) THEN 0 ELSE from + 1

\* index of the first non-blank line of `lines` after position `from`, or 0
RECURSIVE NextLine(_, _)
NextLine(lines, from) ==
    IF from >= Len(lines) THEN 0
    ELSE IF IsBlankLine(lines[from + 1]) THEN NextLine(lines, from + 1)
    ELSE from + 1

\* ------------------------------------------------------------ credentials
Falsy(v) == v \in {None, ""}

\* lines 59-67: the address list, with the container-host fallback
NoIp(terminal_auth) ==
    "ip" \notin DOMAIN terminal_auth \/ terminal_auth["ip"].addrs = <<>>

ResolveIpList(terminal_auth, instance_host_ip) ==
    IF NoIp(terminal_auth)
    THEN <<instance_host_ip>>
    ELSE terminal_auth["ip"].addrs

\* line 73 with `and` in place of `or`
CredentialsMissingBoth(ips, usr) == ips = <<>> /\ Falsy(usr)

\* line 73: `not ip_list or not user`
CredentialsMissing(ips, usr) == ips = <<>> \/ Falsy(usr)

\* ------------------------------------------------------------- _rerun
\* line 25: the loop counter _rerun starts from, given its retry_count argument
RerunStart(retry_count_arg) == RerunCount

\* line 34 raising the non-recoverable error instead
RerunExhaustedFatal == "NonRecoverableError"

\* line 34: what _rerun raises once the counter reaches zero
RerunExhausted == "RecoverableError"

\* line 191 without the test of exit_command
ExitLoopIgnoresCommand(closed, command) == ~closed

\* line 191: the closing loop goes on
ExitLoopContinues(closed, command) == ~closed /\ ~Falsy(command)

\* ------------------------------------------------------------------ state
VARIABLES
    pc,                 \* where the run is: idle, connect, call, rerun,
                        \* returned, closing, exit, done
    outcome,            \* how the run ended: "none" until then, "returned",
                        \* or the exception that left run
    calls,              \* kwargs['calls']
    kwargs_auth,        \* kwargs.get('terminal_auth', {})
    host_ip,            \* ctx_instance.host_ip as read at line 63, else "unread"
    properties,         \* ctx.node.properties
    node_defaults,      \* the node's terminal_auth as it was before the run
    auth,               \* the merged terminal_auth of this run
    ip_list, user, exit_command,
    global_promt_check, global_error_examples,
    ipIndex,            \* position of the for loop over ip_list
    connects,           \* connection.connect invocations: [ip, ok]
    callIndex,          \* position of the for loop over calls
    compiled,           \* CompileCall of the call being/last processed
    lineIndex,          \* position in operation.split("\n")
    promt_check, error_examples,
    result,             \* the call's accumulated output
    parts,              \* what _rerun returned for the call's lines so far
    retry_count, retry_sleep,   \* _rerun's locals
    retry_arg,          \* the retry_count argument _rerun was given
    attempts,           \* connection.run invocations for the current line
    warned,             \* RecoverableWarning raised for the current line
    sleeps,             \* time.sleep durations for the current line
    result_part,        \* what _rerun returned
    lineStatus,         \* none, running, ok, exhausted, fatal
    issued,             \* the lines handed to _rerun: [call, line, command,
                        \*   prompt_check, error_examples]
    runtime_properties, \* ctx_instance.runtime_properties
    writes,             \* assignments to runtime_properties: [call, key, value]
    isClosedFalse,      \* is_closed() answers of False (saturating at MaxExit)
    exits,              \* exit commands issued (saturating at MaxExit):
                        \*   count, and the arguments they were given
    exitArgs,
    closeCount,         \* connection.close invocations
    \* cloudify_deployment_proxy: one task behind utils.proxy_operation
    proxy_pc,           \* undecorated, ready, task (the task runs), done
    operation_name,     \* the `operation` proxy_operation was given
    caller_kwargs,      \* the kwargs the wrapper was called with
    task_kwargs,        \* the kwargs the task was called with
    task_end,           \* how the task ended: [kind, value], kind return or
                        \*   raise, value the return value or the exception
    wrapper_end         \* how the wrapper ended, likewise

credVars == <<kwargs_auth, host_ip, properties, node_defaults, auth, ip_list, user,
              exit_command, global_promt_check, global_error_examples>>
connVars == <<ipIndex, connects>>
callVars == <<callIndex, compiled, lineIndex, promt_check, error_examples, result,
              parts>>
rerunVars == <<retry_count, retry_sleep, retry_arg, attempts, warned, sleeps,
               result_part, lineStatus>>
sinkVars == <<runtime_properties, writes>>
closeVars == <<isClosedFalse, exits, exitArgs, closeCount>>

proxyVars == <<proxy_pc, operation_name, caller_kwargs, task_kwargs, task_end,
               wrapper_end>>

runVars == <<pc, outcome, calls, credVars, connVars, callVars, rerunVars, issued,
             sinkVars, closeVars>>

vars == <<runVars, proxyVars>>

\* neither the task nor the wrapper has ended
NotEnded == [kind |-> "none", value |-> None]

NoCompile == [call |-> 0, operation |-> EmptyText, skip |-> TRUE, lookup |-> FALSE,
              inline |-> FALSE]

Init ==
    /\ pc = "idle"
    /\ outcome = "none"
    /\ calls = <<>>
    /\ kwargs_auth = EmptyDict
    /\ host_ip = "unread"
    /\ properties \in NodeProperties
    /\ node_defaults = Get(properties, "terminal_auth", EmptyDict)
    /\ auth = EmptyDict
    /\ ip_list = <<>>
    /\ user = None
    /\ exit_command = None
    /\ global_promt_check = None
    /\ global_error_examples = <<>>
    /\ ipIndex = 0
    /\ connects = <<>>
    /\ callIndex = 0
    /\ compiled = NoCompile
    /\ lineIndex = 0
    /\ promt_check = None
    /\ error_examples = <<>>
    /\ result = <<>>
    /\ parts = <<>>
    /\ retry_count = 0
    /\ retry_sleep = 0
    /\ retry_arg = 0
    /\ attempts = 0
    /\ warned = 0
    /\ sleeps = <<>>
    /\ result_part = <<>>
    /\ lineStatus = "none"
    /\ issued = <<>>
    /\ runtime_properties = EmptyDict
    /\ writes = <<>>
    /\ isClosedFalse = 0
    /\ exits = 0
    /\ exitArgs = {}
    /\ closeCount = 0
    /\ proxy_pc = "undecorated"
    /\ operation_name = None
    /\ caller_kwargs = EmptyDict
    /\ task_kwargs = EmptyDict
    /\ task_end = NotEnded
    /\ wrapper_end = NotEnded

\* the run leaves `run` with exception `e` (or returns)
Finish(e) == pc' = "done" /\ outcome' = e

\* line 43 never taking the early return
NoCallsIgnored(kw_calls) == FALSE

\* line 43: `not calls`, for the list kwargs.get('calls', []) yields
NoCalls(kw_calls) == kw_calls = <<>>

\* ---------------------------------------------------------------- actions
\* lines 39-92: no calls: return; else resolve and validate the credentials
RunEntry(kw_calls, kw_auth, instance_host_ip) ==
    /\ pc = "idle"
    /\ UNCHANGED proxyVars
    /\ calls' = kw_calls
    /\ kwargs_auth' = kw_auth
    /\ UNCHANGED node_defaults
    /\ IF NoCalls(kw_calls)
       THEN /\ Finish("returned")
            /\ UNCHANGED <<host_ip, properties, auth, ip_list, user, exit_command,
                           global_promt_check, global_error_examples>>
       ELSE LET terminal_auth ==
                    DictUpdate(Get(properties, "terminal_auth", EmptyDict), kw_auth)
                ips == ResolveIpList(terminal_auth, instance_host_ip)
                usr == Get(terminal_auth, "user", None)
            IN  /\ auth' = terminal_auth
                /\ host_ip' = IF NoIp(terminal_auth) THEN instance_host_ip ELSE "unread"
                \* update() changes the node's own mapping when it has one
                /\ properties' = IF "terminal_auth" \in DOMAIN properties
                                 THEN [properties EXCEPT !["terminal_auth"] = terminal_auth]
                                 ELSE properties
                /\ ip_list' = ips
                /\ user' = usr
                /\ IF CredentialsMissing(ips, usr)
                   THEN /\ Finish("NonRecoverableError")
                        /\ UNCHANGED <<exit_command, global_promt_check,
                                       global_error_examples>>
                   ELSE /\ pc' = "connect"
                        /\ outcome' = outcome
                        /\ global_promt_check' = Get(terminal_auth, "promt_check", None)
                        /\ global_error_examples' = Get(terminal_auth, "errors", <<>>)
                        /\ exit_command' = Get(terminal_auth, "exit_command", "exit")
    /\ ipIndex' = 1
    /\ UNCHANGED <<connects, callVars, rerunVars, issued, sinkVars, closeVars>>

\* lines 96-102: connect to the next candidate succeeds
ConnectOk ==
    /\ pc = "connect"
    /\ UNCHANGED proxyVars
    /\ connects' = Append(connects, [ip |-> ip_list[ipIndex], ok |-> TRUE])
    /\ pc' = "call"
    /\ callIndex' = 1
    /\ UNCHANGED <<outcome, calls, credVars, ipIndex, compiled, lineIndex,
                   promt_check, error_examples, result, parts, rerunVars, issued,
                   sinkVars, closeVars>>

\* lines 96-108 giving up at the first failed connect
NoNextIp(i, ips) == FALSE

\* line 96: the for loop over ip_list has a next candidate
HasNextIp(i, ips) == i < Len(ips)

\* lines 104-108: connect raises; the next candidate, or OperationRetry
ConnectFail ==
    /\ pc = "connect"
    /\ UNCHANGED proxyVars
    /\ connects' = Append(connects, [ip |-> ip_list[ipIndex], ok |-> FALSE])
    /\ IF HasNextIp(ipIndex, ip_list)
       THEN /\ ipIndex' = ipIndex + 1
            /\ UNCHANGED <<pc, outcome>>
       ELSE /\ Finish("OperationRetry")
            /\ UNCHANGED ipIndex
    /\ UNCHANGED <<calls, credVars, callVars, rerunVars, issued, sinkVars, closeVars>>

\* a line enters _rerun (lines 166-179, 24-25)
EnterLine(call, line) ==
    /\ pc' = "rerun"
    /\ lineIndex' = line
    /\ retry_arg' = Get(call, "retry_count", DefaultRetryCount)
    /\ retry_count' = RerunStart(Get(call, "retry_count", DefaultRetryCount))
    /\ retry_sleep' = Get(call, "retry_sleep", DefaultRetrySleep)
    /\ attempts' = 0
    /\ warned' = 0
    /\ sleeps' = <<>>
    /\ lineStatus' = "running"
    /\ UNCHANGED <<outcome, callIndex, result_part, sinkVars>>

\* lines 185-189 and the step of the for loop over calls
NextCall ==
    IF callIndex < Len(calls)
    THEN pc' = "call" /\ callIndex' = callIndex + 1
    ELSE pc' = "closing" /\ UNCHANGED callIndex

\* lines 186-189 storing `result` as it is, without strip()
SaveResultUnstripped(call, res) ==
    LET save_to == Get(call, "save_to", None)
    IN  IF ~Falsy(save_to)
        THEN /\ runtime_properties' = (save_to :> res) @@ runtime_properties
             /\ writes' = Append(writes, [call |-> callIndex, key |-> save_to,
                                          value |-> res])
        ELSE UNCHANGED sinkVars

SaveResult(call, res) ==
    LET save_to == Get(call, "save_to", None)
    IN  IF ~Falsy(save_to)
        THEN /\ runtime_properties' = (save_to :> Strip(res)) @@ runtime_properties
             /\ writes' = Append(writes, [call |-> callIndex, key |-> save_to,
                                          value |-> Strip(res)])
        ELSE UNCHANGED sinkVars

\* the kwargs connection.run gets for a line
LineArgs(call, line, command) ==
    [call |-> callIndex, line |-> line, command |-> command,
     prompt_check |-> Get(call, "promt_check", global_promt_check),
     error_examples |-> Get(call, "errors", global_error_examples)]

\* lines 112-179: the next call is compiled; skipped, or its first line
\* enters _rerun, or (only blank lines) its empty result is saved
BeginCall ==
    /\ pc = "call"
    /\ UNCHANGED proxyVars
    /\ LET call == calls[callIndex]
           c == CompileCall(call)
           first == NextLine(c.operation, 0)
       IN  /\ promt_check' = Get(call, "promt_check", global_promt_check)
           /\ error_examples' = Get(call, "errors", global_error_examples)
           /\ compiled' = [call |-> callIndex, operation |-> c.operation, skip |-> c.skip,
                            lookup |-> c.lookup, inline |-> c.inline]
           /\ IF c.skip
              THEN /\ NextCall
                   /\ UNCHANGED <<outcome, lineIndex, result, parts, rerunVars, issued,
                                  sinkVars>>
              ELSE /\ result' = <<>>
                   /\ parts' = <<>>
                   /\ IF first = 0
                      THEN /\ NextCall
                           /\ SaveResult(call, <<>>)
                           /\ UNCHANGED <<outcome, lineIndex, rerunVars, issued>>
                      ELSE /\ EnterLine(call, first)
                           /\ issued' = Append(issued,
                                  LineArgs(call, first, c.operation[first]))
    /\ UNCHANGED <<calls, credVars, connVars, closeVars>>

\* line 28: connection.run returns
RerunOk(out) ==
    /\ pc = "rerun"
    /\ UNCHANGED proxyVars
    /\ attempts' = attempts + 1
    /\ result_part' = out
    /\ lineStatus' = "ok"
    /\ pc' = "returned"
    /\ UNCHANGED <<outcome, calls, credVars, connVars, callVars, retry_count,
                   retry_sleep, retry_arg, warned, sleeps, issued, sinkVars, closeVars>>

\* lines 29-35: connection.run raises RecoverableWarning; sleep, then the
\* next attempt, or the error once the counter is used up
RerunWarning ==
    /\ pc = "rerun"
    /\ UNCHANGED proxyVars
    /\ attempts' = attempts + 1
    /\ warned' = warned + 1
    /\ retry_count' = retry_count - 1
    /\ sleeps' = Append(sleeps, retry_sleep)
    /\ IF retry_count - 1 > 0
       THEN UNCHANGED <<pc, outcome, lineStatus>>
       ELSE Finish(RerunExhausted) /\ lineStatus' = "exhausted"
    /\ UNCHANGED <<calls, credVars, connVars, callVars, retry_sleep, retry_arg,
                   result_part, issued, sinkVars, closeVars>>

\* line 28 under a handler that turns any failure into the error of line 34
RerunRaisedWrapped(e) == "RecoverableError"

\* line 28: an exception of func that is no RecoverableWarning meets no
\* handler in _rerun and leaves it as it is
RerunRaised(e) == e

\* line 28 under an `except Exception` that logs and goes on with an empty
\* output
RerunFatalSwallowed ==
    /\ pc = "rerun"
    /\ UNCHANGED proxyVars
    /\ attempts' = attempts + 1
    /\ lineStatus' = "fatal"
    /\ result_part' = <<>>
    /\ pc' = "returned"
    /\ UNCHANGED <<outcome, calls, credVars, connVars, callVars, retry_count,
                   retry_sleep, retry_arg, warned, sleeps, issued, sinkVars, closeVars>>

\* line 28: connection.run raises anything else, which leaves run
RerunFatal ==
    /\ pc = "rerun"
    /\ UNCHANGED proxyVars
    /\ attempts' = attempts + 1
    /\ lineStatus' = "fatal"
    /\ Finish(RerunRaised("TransportFatal"))
    /\ UNCHANGED <<calls, credVars, connVars, callVars, retry_count, retry_sleep,
                   retry_arg, warned, sleeps, result_part, issued, sinkVars, closeVars>>

\* _rerun has returned and its output is taken: nothing of that invocation
\* (its locals, the count of its attempts) is left
LeaveRerun ==
    /\ retry_count' = 0
    /\ retry_sleep' = 0
    /\ retry_arg' = 0
    /\ attempts' = 0
    /\ warned' = 0
    /\ sleeps' = <<>>
    /\ lineStatus' = "none"

\* lines 181-189: the line's output joins the result; the next non-blank
\* line enters _rerun, or the call ends and its result is saved
Accumulate ==
    /\ pc = "returned"
    /\ UNCHANGED proxyVars
    /\ LET call == calls[callIndex]
           res == result \o result_part \o <<"\n">>
           next == NextLine(compiled.operation, lineIndex)
       IN  /\ result' = res
           /\ parts' = Append(parts, result_part)
           /\ IF next = 0
              THEN /\ NextCall
                   /\ SaveResult(call, res)
                   /\ LeaveRerun
                   /\ UNCHANGED <<outcome, lineIndex, result_part, issued>>
              ELSE /\ EnterLine(call, next)
                   /\ issued' = Append(issued,
                          LineArgs(call, next, compiled.operation[next]))
    /\ UNCHANGED <<calls, credVars, connVars, compiled, promt_check,
                   error_examples, closeVars>>

\* a counter of the closing loop, kept finite
Bump(n) == IF n < MaxExit THEN n + 1 ELSE n

\* lines 193-195 passing the credential-level prompt check and patterns
ExitArgsGlobal == [command |-> exit_command, prompt_check |-> global_promt_check,
                   error_examples |-> global_error_examples]

\* the kwargs connection.run gets for an exit command (lines 193-195)
ExitArgs == [command |-> exit_command, prompt_check |-> promt_check,
             error_examples |-> error_examples]

\* line 191: is_closed() answers False and there is an exit command: the
\* loop body is entered
ExitLoop ==
    /\ pc = "closing"
    /\ UNCHANGED proxyVars
    /\ ExitLoopContinues(FALSE, exit_command)
    /\ isClosedFalse' = Bump(isClosedFalse)
    /\ pc' = "exit"
    /\ UNCHANGED <<outcome, calls, credVars, connVars, callVars, rerunVars,
                   issued, sinkVars, exits, exitArgs, closeCount>>

\* lines 192-197: the exit command runs, then the pacing sleep
ExitCommand ==
    /\ pc = "exit"
    /\ UNCHANGED proxyVars
    /\ exits' = Bump(exits)
    /\ exitArgs' = exitArgs \cup {ExitArgs}
    /\ pc' = "closing"
    /\ UNCHANGED <<outcome, calls, credVars, connVars, callVars, rerunVars,
                   issued, sinkVars, isClosedFalse, closeCount>>

\* lines 192-195: the exit command raises, which leaves run
ExitCommandRaises ==
    /\ pc = "exit"
    /\ UNCHANGED proxyVars
    /\ exits' = Bump(exits)
    /\ exitArgs' = exitArgs \cup {ExitArgs}
    /\ Finish("TransportFatal")
    /\ UNCHANGED <<calls, credVars, connVars, callVars, rerunVars, issued,
                   sinkVars, isClosedFalse, closeCount>>

\* lines 191, 199: the loop ends (closed, or no exit command) and the
\* connection is closed
Close(closed) ==
    /\ pc = "closing"
    /\ UNCHANGED proxyVars
    /\ ~ExitLoopContinues(closed, exit_command)
    /\ isClosedFalse' = IF closed THEN isClosedFalse ELSE Bump(isClosedFalse)
    /\ closeCount' = closeCount + 1
    /\ Finish("returned")
    /\ UNCHANGED <<calls, credVars, connVars, callVars, rerunVars, issued,
                   sinkVars, exits, exitArgs>>

Next ==
    \/ \E c \in CallLists, a \in InvocationAuths \cup {EmptyDict}, h \in HostIps :
          RunEntry(c, a, h)
    \/ ConnectOk
    \/ ConnectFail
    \/ BeginCall
    \/ \E out \in Outputs : RerunOk(out)
    \/ RerunWarning
    \/ RerunFatal
    \/ Accumulate
    \/ ExitLoop
    \/ ExitCommand
    \/ ExitCommandRaises
    \/ \E closed \in BOOLEAN : Close(closed)

Spec == Init /\ [][Next]_vars

\* The run is one thread: whenever a step is possible, one is taken.
FairSpec == Spec /\ WF_vars(Next)

\* ------------------------------------------- cloudify_deployment_proxy
\* the names tasks.py gives proxy_operation
ProxyOperations ==
    { "upload_blueprint", "create_deployment", "delete_deployment", "execute_workflow" }

\* the kwargs a wrapped task may be called with
CallerKwargs ==
    { EmptyDict,
      "timeout" :> 5,
      "operation" :> "other",
      "operation" :> "upload_blueprint" @@ "timeout" :> 5 }

\* what DeploymentProxyBase(_).<operation>() may return
TaskReturnValues == { None, "v" }

\* the exceptions (instances of Exception) it may raise
TaskExceptions ==
    { "OperationRetry", "RecoverableError", "NonRecoverableError", "KeyError",
      "AttributeError" }

\* utils.py with the handler of line 57 widened to RecoverableError, which
\* then goes on as it is
ProxyRaiseKeepsRecoverable(e) ==
    IF e \in {"OperationRetry", "RecoverableError"} THEN e ELSE "NonRecoverableError"

\* utils.py lines 57-77: the exception the wrapper raises for exception e of
\* the task; OperationRetry is matched first, every other Exception second
ProxyRaise(e) ==
    IF e = "OperationRetry" THEN "OperationRetry" ELSE "NonRecoverableError"

\* tasks.py lines 22-43: a task is decorated with proxy_operation(name)
ProxyOperation(name) ==
    /\ proxy_pc = "undecorated"
    /\ proxy_pc' = "ready"
    /\ operation_name' = name
    /\ UNCHANGED <<caller_kwargs, task_kwargs, task_end, wrapper_end, runVars>>

\* utils.py lines 53-56: the wrapper is called, sets kwargs['operation'] and
\* calls the task
Wrapper(kw) ==
    /\ proxy_pc = "ready"
    /\ proxy_pc' = "task"
    /\ caller_kwargs' = kw
    /\ task_kwargs' = DictUpdate(kw, "operation" :> operation_name)
    /\ UNCHANGED <<operation_name, task_end, wrapper_end, runVars>>

\* utils.py line 56: the task returns and the wrapper returns its value
TaskReturns(v) ==
    /\ proxy_pc = "task"
    /\ proxy_pc' = "done"
    /\ task_end' = [kind |-> "return", value |-> v]
    /\ wrapper_end' = [kind |-> "return", value |-> v]
    /\ UNCHANGED <<operation_name, caller_kwargs, task_kwargs, runVars>>

\* utils.py lines 57-77: the task raises and a handler of the wrapper
\* raises in its turn
TaskRaises(e) ==
    /\ proxy_pc = "task"
    /\ proxy_pc' = "done"
    /\ task_end' = [kind |-> "raise", value |-> e]
    /\ wrapper_end' = [kind |-> "raise", value |-> ProxyRaise(e)]
    /\ UNCHANGED <<operation_name, caller_kwargs, task_kwargs, runVars>>

ProxyNext ==
    \/ \E name \in ProxyOperations : ProxyOperation(name)
    \/ \E kw \in CallerKwargs : Wrapper(kw)
    \/ \E v \in TaskReturnValues : TaskReturns(v)
    \/ \E e \in TaskExceptions : TaskRaises(e)

\* one call of one decorated task
ProxySpec == Init /\ [][ProxyNext]_vars

\* ------------------------------------------------------------ vocabulary
\* the line last handed to _rerun, and its call
LastIssued == issued[Len(issued)]
CurrentCall == calls[LastIssued.call]
\* the retry count and interval the call asks for
CallRetryCount == Get(CurrentCall, "retry_count", DefaultRetryCount)
CallRetrySleep == Get(CurrentCall, "retry_sleep", DefaultRetrySleep)
\* a line has been handed to _rerun
InLine == lineStatus # "none"
\* one connect succeeded
Connected == \E i \in DOMAIN connects : connects[i].ok
\* how the framework treats what leaves run: these are retried by it
Retryable(e) == e \in {"RecoverableError", "OperationRetry"}
\* the credentials of the run: node-level defaults under the invocation's
MergedAuth == DictUpdate(Get(properties, "terminal_auth", EmptyDict), kwargs_auth)
MissingAddress == NoIp(MergedAuth)
MissingUser == Falsy(Get(MergedAuth, "user", None))
Started == pc # "idle"
EndsWith(s, t) == Len(s) >= Len(t) /\ SubSeq(s, Len(s) - Len(t) + 1, Len(s)) = t

\* ------------------------------------------------------------------ C1
\* C1: for every line, the transport's run is invoked at most as often as
\* the retry count of the line's call (10 when the call gives none), and
\* when every attempt raised RecoverableWarning _rerun raises after exactly
\* that many attempts.
C1_AttemptsWithinRetryCount ==
    InLine =>
        /\ attempts <= CallRetryCount
        /\ lineStatus = "exhausted" => attempts = CallRetryCount

\* ------------------------------------------------------------------ C2
\* C2: with retry count R and interval T, a transport that raises
\* RecoverableWarning k < R times on a line and then succeeds is attempted
\* k+1 times with k sleeps of T each, and the successful output is the
\* line's contribution to the result (and to the stored value).  So a line
\* is not given up before R warnings.
C2_RetryThenSuccess ==
    /\ lineStatus = "ok" =>
          /\ attempts = warned + 1
          /\ Len(sleeps) = warned
          /\ \A i \in DOMAIN sleeps : sleeps[i] = CallRetrySleep
    /\ (issued # <<>> /\ lineStatus = "none" /\ compiled.call = LastIssued.call) =>
          /\ EndsWith(result, result_part \o <<"\n">>)
          /\ ~Falsy(Get(CurrentCall, "save_to", None)) =>
                /\ writes # <<>>
                /\ writes[Len(writes)] = [call |-> LastIssued.call,
                                          key |-> CurrentCall["save_to"],
                                          value |-> Strip(result)]
                /\ runtime_properties[CurrentCall["save_to"]] = Strip(result)
    /\ lineStatus = "exhausted" => warned >= CallRetryCount

\* ------------------------------------------------------------------ C3
\* C3 as stated: when a line's retry budget is exhausted the run ends with a
\* fatal, non-retryable failure.
C3_ExhaustionIsFatal ==
    lineStatus = "exhausted" => (pc = "done" /\ ~Retryable(outcome))

\* C3 amended: when a line's retry budget is exhausted the run ends with
\* RecoverableError, which is a retryable failure; and RecoverableError
\* leaves run in no other way.
C3_ExhaustionIsRecoverableError ==
    /\ lineStatus = "exhausted" =>
          (pc = "done" /\ outcome = "RecoverableError" /\ Retryable(outcome))
    /\ outcome = "RecoverableError" => lineStatus = "exhausted"

C3_Witness == pc = "done" /\ lineStatus = "exhausted" /\ warned = attempts

\* ------------------------------------------------------------------ C4
\* C4: every run that connected invokes the transport's close exactly once
\* before it ends, also when it ends because a line raised a fatal
\* condition or exhausted its retries.
C4_ConnectedRunCloses ==
    (pc = "done" /\ Connected) => closeCount = 1

\* ------------------------------------------------------------------ C5
\* C5: every run terminates: if the transport never reports closed, the
\* exit-command loop stops after a bounded number of iterations and the run
\* ends.
C5_RunTerminates == <>(pc = "done")

\* ------------------------------------------------------------------ C6
\* C6: exit commands are issued only once all calls are processed; a run
\* that returns after a transport answered is_closed False k times and then
\* True has issued exactly k exit commands and then closed exactly once;
\* with an empty exit command, or a transport already closed, no exit
\* command is issued and close is still invoked exactly once; nothing
\* follows close.
C6_ClosingSequence ==
    /\ (exits > 0 \/ pc = "exit") =>
                    (pc \in {"closing", "exit", "done"} /\ callIndex = Len(calls)
                     /\ lineStatus \notin {"running", "fatal", "exhausted"})
    /\ closeCount <= 1
    /\ closeCount = 1 => pc = "done"
    /\ exits <= isClosedFalse
    /\ Falsy(exit_command) => exits = 0
    /\ (pc = "done" /\ outcome = "returned" /\ calls # <<>>) =>
          /\ closeCount = 1
          /\ ~Falsy(exit_command) => exits = isClosedFalse

C6_Witness ==
    /\ pc = "done" /\ outcome = "returned" /\ closeCount = 1
    /\ exits = 2 /\ isClosedFalse = 2 /\ ~Falsy(exit_command)

\* ------------------------------------------------------------------ C7
\* C7 as stated: for all credential sets missing both address list and
\* user, the run fails with the non-retryable MissingCredentials error and
\* makes no connection attempt.
C7_MissingBothFails ==
    (Started /\ MissingAddress /\ MissingUser) =>
        (pc = "done" /\ outcome = "NonRecoverableError" /\ connects = <<>>)

\* C7 amended: for every run given a non-empty calls list whose credentials
\* miss both address list and user, the run fails with NonRecoverableError
\* and makes no connection attempt.
C7_MissingBothFailsWithCalls ==
    (Started /\ calls # <<>> /\ MissingAddress /\ MissingUser) =>
        (pc = "done" /\ outcome = "NonRecoverableError" /\ ~Retryable(outcome)
         /\ connects = <<>>)

C7_Witness ==
    /\ pc = "done" /\ calls # <<>> /\ MissingAddress /\ MissingUser
    /\ outcome = "NonRecoverableError"

\* ------------------------------------------------------------------ C8
\* C8: with no address list in the merged credentials a run (given calls)
\* uses the single address of the container host; if that yields no address
\* either, or if no user is set, it fails with the non-retryable
\* MissingCredentials error before any connect attempt.
C8_FallbackOrFail ==
    (Started /\ calls # <<>>) =>
        /\ (MissingAddress /\ host_ip # None /\ ~MissingUser) => ip_list = <<host_ip>>
        /\ ((MissingAddress /\ host_ip = None) \/ MissingUser) =>
              (pc = "done" /\ outcome = "NonRecoverableError" /\ connects = <<>>)

\* ------------------------------------------------------------------ C9
\* C9: connect is attempted on the candidates in list order and stops at the
\* first success (nothing is attempted after it, one session at most); when
\* all N attempts fail the run raises the retryable OperationRetry after
\* exactly N attempts, and no call line is executed.
C9_HostSelector ==
    /\ Len(connects) <= Len(ip_list)
    /\ \A i \in DOMAIN connects :
          /\ connects[i].ip = ip_list[i]
          /\ connects[i].ok => i = Len(connects)
    /\ outcome = "OperationRetry" <=>
          (ip_list # <<>> /\ Len(connects) = Len(ip_list)
           /\ \A i \in DOMAIN connects : ~connects[i].ok)
    /\ outcome = "OperationRetry" =>
          (pc = "done" /\ Retryable(outcome) /\ issued = <<>> /\ exits = 0)
    /\ (issued # <<>> \/ pc \in {"call", "rerun", "returned", "closing", "exit"}) => Connected

C9_Witness ==
    /\ outcome = "OperationRetry" /\ Len(ip_list) = 2 /\ Len(connects) = 2

\* ----------------------------------------------------------------- C10
\* the text the stated precedence gives a call
ClaimedText(call) ==
    IF ~IsEmptyText(Get(call, "action", EmptyText)) THEN call["action"]
    ELSE IF "template" \in DOMAIN call
         THEN IF Resource(call["template"]) = None THEN EmptyText
              ELSE Render(Resource(call["template"]), TemplateParams(call))
    ELSE IF "template_text" \in DOMAIN call
         THEN Render(call["template_text"], TemplateParams(call))
    ELSE EmptyText

\* C10: a call's executable text is its action verbatim when that is
\* non-empty (no template is looked up or rendered); else the rendering of
\* the named template when a name is given (empty when the lookup fails),
\* the inline text not being used; else the rendering of the inline text;
\* else empty.
C10_CompilePrecedence ==
    compiled.call > 0 =>
        LET call == calls[compiled.call]
            hasAction == ~IsEmptyText(Get(call, "action", EmptyText))
        IN  /\ (IF compiled.skip THEN EmptyText ELSE compiled.operation) = ClaimedText(call)
            /\ hasAction => (~compiled.lookup /\ ~compiled.inline)
            /\ (~hasAction /\ "template" \in DOMAIN call) => ~compiled.inline

\* ---------------------------------------------------------------- C11
\* a call that names no text at all: no action, no template, no template text
NoText(call) ==
    /\ IsEmptyText(Get(call, "action", EmptyText))
    /\ "template" \notin DOMAIN call
    /\ "template_text" \notin DOMAIN call

\* the calls the for loop has taken up so far
Begun == 1..compiled.call

\* C11: a call with no action, no template and no template text executes
\* no line and stores no result, whatever its save key; taking it up does
\* not end the run: the loop is at the next call, or past the last one.
C11_EmptyCallSkipped ==
    /\ \A i \in Begun :
          NoText(calls[i]) =>
              /\ \A j \in DOMAIN issued : issued[j].call # i
              /\ \A j \in DOMAIN writes : writes[j].call # i
    /\ (compiled.call > 0 /\ NoText(calls[compiled.call])) =>
          IF compiled.call < Len(calls)
          THEN pc = "call" /\ callIndex = compiled.call + 1 /\ outcome = "none"
          ELSE pc \in {"closing", "exit", "done"} /\ lineStatus # "fatal"

\* an empty call with a save key came first, the next call ran a line and
\* the run returned
C11_Witness ==
    /\ pc = "done" /\ outcome = "returned"
    /\ Len(calls) = 2
    /\ NoText(calls[1]) /\ "save_to" \in DOMAIN calls[1]
    /\ \E j \in DOMAIN issued : issued[j].call = 2

\* ---------------------------------------------------------------- C12
\* the non-blank lines of text `text` of call `i`, from line `k` on
RECURSIVE LinesOf(_, _, _)
LinesOf(i, text, k) ==
    IF k > Len(text) THEN <<>>
    ELSE (IF IsBlankLine(text[k]) THEN <<>>
          ELSE << [call |-> i, line |-> k, command |-> text[k]] >>)
         \o LinesOf(i, text, k + 1)

\* the non-blank lines of the compiled text of call i
CallLines(i) ==
    LET c == CompileCall(calls[i])
    IN  IF c.skip THEN <<>> ELSE LinesOf(i, c.operation, 1)

\* those of calls 1..n, in order
RECURSIVE RunLines(_)
RunLines(n) == IF n = 0 THEN <<>> ELSE RunLines(n - 1) \o CallLines(n)

\* the commands handed to connection.run for lines, in the order issued
Commands ==
    [j \in DOMAIN issued |->
        [call |-> issued[j].call, line |-> issued[j].line,
         command |-> issued[j].command]]

IsPrefix(s, t) == Len(s) <= Len(t) /\ SubSeq(t, 1, Len(s)) = s

\* the for loop over calls has ended
ReachedClosing ==
    \/ pc \in {"closing", "exit"}
    \/ pc = "done" /\ Connected /\ lineStatus \notin {"fatal", "exhausted"}

RECURSIVE SinkOf(_)
SinkOf(ws) ==
    IF ws = <<>> THEN EmptyDict
    ELSE LET w == ws[Len(ws)]
         IN  (w.key :> w.value) @@ SinkOf(SubSeq(ws, 1, Len(ws) - 1))

\* C13: when connection.run fails on a line with anything but a
\* RecoverableWarning, the run has ended with that failure: the failing
\* line is the last one issued and its call the last one taken up, no exit
\* command ran, nothing was stored for the failing call or a later one,
\* and runtime_properties holds exactly what the earlier calls stored.
C13_FatalAborts ==
    lineStatus = "fatal" =>
        /\ pc = "done" /\ outcome = "TransportFatal"
        /\ LastIssued.call = callIndex /\ LastIssued.line = lineIndex
        /\ compiled.call = callIndex
        /\ exits = 0
        /\ \A j \in DOMAIN writes : writes[j].call < callIndex
        /\ runtime_properties = SinkOf(writes)

\* the first call stored its result; the second, which has a save key,
\* failed on its last line
C13_Witness ==
    /\ lineStatus = "fatal"
    /\ callIndex = 2 /\ lineIndex = 3
    /\ "save_to" \in DOMAIN calls[2]
    /\ Len(writes) = 1 /\ writes[1].call = 1
    /\ DOMAIN runtime_properties = {writes[1].key}

\* ---------------------------------------------------------------- C14
\* lines 157, 184: every output as returned, each followed by a newline
RECURSIVE JoinRaw(_)
JoinRaw(ps) == IF ps = <<>> THEN <<>> ELSE Head(ps) \o <<"\n">> \o JoinRaw(Tail(ps))

\* the trimmed outputs, separated by newlines
RECURSIVE JoinTrimmed(_)
JoinTrimmed(ps) ==
    IF ps = <<>> THEN <<>>
    ELSE IF Len(ps) = 1 THEN Strip(ps[1])
    ELSE Strip(ps[1]) \o <<"\n">> \o JoinTrimmed(Tail(ps))

\* call i has a text to run and the loop over calls is past it
Completed(i) ==
    /\ i \in DOMAIN calls
    /\ ~CompileCall(calls[i]).skip
    /\ (i < callIndex \/ ReachedClosing)

\* the assignments to runtime_properties made for call i
WritesOf(i) == { j \in DOMAIN writes : writes[j].call = i }

SaveKey(i) == Get(calls[i], "save_to", None)

\* the call last taken up has run all its lines, and `parts` are its outputs
CallDone == compiled.call > 0 /\ Completed(compiled.call)

\* a call that ran all its lines made one assignment under its save key if
\* it has one, none otherwise
OneWritePerCall ==
    \A i \in DOMAIN calls :
        Completed(i) =>
            IF Falsy(SaveKey(i)) THEN WritesOf(i) = {}
            ELSE /\ Cardinality(WritesOf(i)) = 1
                 /\ \A j \in WritesOf(i) : writes[j].key = SaveKey(i)

\* the value stored for the call just completed is `v`, and reads back
StoredIs(v) ==
    (CallDone /\ ~Falsy(SaveKey(compiled.call))) =>
        /\ writes # <<>>
        /\ writes[Len(writes)].call = compiled.call
        /\ writes[Len(writes)].value = v
        /\ runtime_properties[SaveKey(compiled.call)] = v

\* C14 as claimed: a call that completes its lines is stored once under its
\* save key (never without one), and the value is the newline-separated
\* concatenation of the trimmed outputs of its lines, trimmed as a whole.
C14_StoredTrimmedParts ==
    /\ OneWritePerCall
    /\ StoredIs(Strip(JoinTrimmed(parts)))

\* C14 as the code has it: the value is the outputs as returned, each
\* followed by a newline, in line order, trimmed as a whole only.
C14_StoredRawParts ==
    /\ OneWritePerCall
    /\ StoredIs(Strip(JoinRaw(parts)))

\* a call of two lines whose outputs carry surrounding blanks was stored:
\* the blanks next to the inner newline are kept
C14_Witness ==
    /\ CallDone
    /\ parts = << <<" ", "o", " ">>, <<" ", "o", " ">> >>
    /\ writes # <<>>
    /\ writes[Len(writes)].value = <<"o", " ", "\n", " ", "o">>

\* ---------------------------------------------------------------- C15
\* C15: a failure of connection.run that is no RecoverableWarning leaves
\* _rerun at once and as it is: the run ends with that very failure, the
\* failing attempt is the last one, and no sleep follows it (there are as
\* many sleeps as warnings before it).  A RecoverableWarning does not leave
\* _rerun while the counter is positive: after a warning the line is still
\* in _rerun, and the run ends on warnings only with the counter at zero.
C15_FailurePropagates ==
    /\ lineStatus = "fatal" =>
          /\ pc = "done" /\ outcome = "TransportFatal"
          /\ attempts = warned + 1
          /\ Len(sleeps) = warned
    /\ (lineStatus = "running" /\ warned > 0) =>
          /\ pc = "rerun" /\ outcome = "none"
          /\ retry_count > 0
    /\ lineStatus = "exhausted" =>
          /\ retry_count = 0
          /\ outcome # "TransportFatal"

\* the third attempt of a line failed for good, after two warnings
C15_Witness ==
    /\ lineStatus = "fatal"
    /\ warned = 2 /\ attempts = 3
    /\ sleeps = <<retry_sleep, retry_sleep>>

\* ---------------------------------------------------------------- C16
\* the value field k should resolve to: the invocation's when it gives the
\* field, else the node's, else the default of the field
Effective(k, default) ==
    IF k \in DOMAIN kwargs_auth THEN kwargs_auth[k]
    ELSE Get(node_defaults, k, default)

\* the run got past the credential check of line 73
CredentialsAccepted == Started /\ calls # <<>> /\ outcome # "NonRecoverableError"

\* C16: the credentials of a run are merged field by field: a field the
\* invocation gives has the invocation's value, a field only the node gives
\* has the node's value, and the run works with those values (user, prompt
\* check, error patterns, exit command).
C16_MergeFieldByField ==
    /\ (Started /\ calls # <<>>) =>
          /\ DOMAIN auth = DOMAIN node_defaults \cup DOMAIN kwargs_auth
          /\ \A k \in DOMAIN kwargs_auth : auth[k] = kwargs_auth[k]
          /\ \A k \in DOMAIN node_defaults \ DOMAIN kwargs_auth :
                auth[k] = node_defaults[k]
          /\ user = Effective("user", None)
    /\ CredentialsAccepted =>
          /\ global_promt_check = Effective("promt_check", None)
          /\ global_error_examples = Effective("errors", <<>>)
          /\ exit_command = Effective("exit_command", "exit")

\* node and invocation both give a prompt check and an address, only the
\* node gives the user and the error patterns
C16_Witness ==
    /\ CredentialsAccepted
    /\ "promt_check" \in DOMAIN node_defaults \cap DOMAIN kwargs_auth
    /\ node_defaults["promt_check"] # kwargs_auth["promt_check"]
    /\ "user" \in DOMAIN node_defaults \ DOMAIN kwargs_auth
    /\ global_promt_check = kwargs_auth["promt_check"]
    /\ user = node_defaults["user"]

\* ---------------------------------------------------------------- C17
\* what lines 56-58 of a later run without a terminal_auth input merge,
\* starting from the node's mapping as this run leaves it
LaterMerge == DictUpdate(Get(properties, "terminal_auth", EmptyDict), EmptyDict)

\* C17: merging leaves the node's terminal_auth as it was: after the run
\* the node's mapping still has its original values, and a later run
\* without overrides resolves them.
C17_NodeDefaultsUnchanged ==
    pc = "done" =>
        /\ Get(properties, "terminal_auth", EmptyDict) = node_defaults
        /\ LaterMerge = node_defaults

\* ---------------------------------------------------------------- C18
LastCall == calls[Len(calls)]

\* an exit command raised and the exception left run
ExitRaised == pc = "done" /\ outcome = "TransportFatal" /\ lineStatus # "fatal"

\* C18: every exit command gets the exit command text, the prompt check
\* and the error patterns of the last call of the list (its own, else the
\* credentials'), also when that call was skipped, and nothing else: no
\* warning or critical patterns.  When an exit command raises, the run ends
\* with that failure: it was the only attempt of that loop entry, and
\* close was not called.
C18_ExitArguments ==
    /\ \A a \in exitArgs :
          /\ DOMAIN a = {"command", "prompt_check", "error_examples"}
          /\ a.command = exit_command
          /\ a.prompt_check = Get(LastCall, "promt_check", global_promt_check)
          /\ a.error_examples = Get(LastCall, "errors", global_error_examples)
    /\ exits > 0 => exitArgs # {}
    /\ ExitRaised =>
          /\ exits >= 1
          /\ exits = isClosedFalse
          /\ closeCount = 0

\* the last call was skipped as empty and overrides the error patterns; an
\* exit command was given them, raised, and close was not reached
C18_Witness ==
    /\ ExitRaised
    /\ compiled.call = Len(calls) /\ compiled.skip
    /\ "errors" \in DOMAIN LastCall
    /\ LastCall["errors"] # global_error_examples
    /\ \E a \in exitArgs : a.error_examples = LastCall["errors"]
    /\ closeCount = 0

\* ---------------------------------------------------------------- C19
\* C19: a run with no calls returns normally and has done nothing: the
\* credentials were neither merged nor checked (so a node without user or
\* address does not make it fail, and the node's mapping is untouched), the
\* host address was not read, there was no connect, no line, no exit
\* command, no close and no assignment to runtime_properties.
C19_NoCallsNoEffect ==
    (Started /\ calls = <<>>) =>
        /\ pc = "done" /\ outcome = "returned"
        /\ auth = EmptyDict /\ ip_list = <<>> /\ user = None
        /\ host_ip = "unread"
        /\ Get(properties, "terminal_auth", EmptyDict) = node_defaults
        /\ connects = <<>>
        /\ issued = <<>>
        /\ exits = 0 /\ exitArgs = {}
        /\ closeCount = 0
        /\ writes = <<>> /\ runtime_properties = EmptyDict

\* a run without calls on a node that gives neither user nor address, and
\* with a terminal_auth input, has returned
C19_Witness ==
    /\ Started /\ calls = <<>>
    /\ node_defaults = EmptyDict
    /\ kwargs_auth # EmptyDict
    /\ outcome = "returned"

\* ---------------------------------------------------------------- C20
\* C20: a task behind proxy_operation(name) is called with the keyword
\* `operation` equal to name, whatever the caller gave for it, and with
\* the caller's other keywords; when the task returns, the wrapper returns
\* the same value; when the task raises OperationRetry the wrapper raises
\* OperationRetry; when it raises anything else, RecoverableError
\* included, the wrapper raises NonRecoverableError; so the wrapper raises
\* nothing but these two.
C20_ProxyOperation ==
    /\ proxy_pc \in {"task", "done"} =>
          /\ operation_name \in ProxyOperations
          /\ DOMAIN task_kwargs = DOMAIN caller_kwargs \cup {"operation"}
          /\ task_kwargs["operation"] = operation_name
          /\ \A k \in DOMAIN caller_kwargs \ {"operation"} :
                task_kwargs[k] = caller_kwargs[k]
    /\ proxy_pc = "done" =>
          /\ task_end.kind = "return" => wrapper_end = task_end
          /\ (task_end.kind = "raise" /\ task_end.value = "OperationRetry") =>
                wrapper_end = [kind |-> "raise", value |-> "OperationRetry"]
          /\ (task_end.kind = "raise" /\ task_end.value # "OperationRetry") =>
                wrapper_end = [kind |-> "raise", value |-> "NonRecoverableError"]
          /\ wrapper_end.kind = "raise" =>
                wrapper_end.value \in {"OperationRetry", "NonRecoverableError"}

\* the caller gave another `operation`; the task got the decorator's name
\* and raised RecoverableError, the wrapper NonRecoverableError
C20_Witness ==
    /\ proxy_pc = "done"
    /\ "operation" \in DOMAIN caller_kwargs
    /\ caller_kwargs["operation"] # operation_name
    /\ task_kwargs["operation"] = operation_name
    /\ task_end = [kind |-> "raise", value |-> "RecoverableError"]
    /\ wrapper_end = [kind |-> "raise", value |-> "NonRecoverableError"]

====
